---- MODULE Spec2Model ----
(***************************************************************************)
(* Model of a10.py: the pattern-action dispatcher (pa_list,                *)
(* search_pa_list), the query loop (query_loop), the normaliser            *)
(* (normalize) and the answering actions with their infobox getters.       *)
(*                                                                         *)
(* A Python str is a sequence of characters; a character is a one-letter   *)
(* TLA+ string, except the two code points "U+0130" (LATIN CAPITAL LETTER  *)
(* I WITH DOT ABOVE) and "U+0307" (COMBINING DOT ABOVE), which are written *)
(* by their code point names.  A token is a str, a token list a sequence   *)
(* of strs.                                                                *)
(***************************************************************************)
EXTENDS Integers, Sequences, FiniteSets, TLC

VARIABLES pc, raw, tokens, renorm, idx, tried, invoked, calls, clock,
          answers, printed, farewell, exc

vars == <<pc, raw, tokens, renorm, idx, tried, invoked, calls, clock,
          answers, printed, farewell, exc>>

\* ------------------------------------------------------------------ bounds
\* longest raw string drawn for the normalize check
MaxStrLen == 3
\* longest wildcard binding put into a generated query
MaxBinding == 2
\* years of the dates an infobox or the system clock can show
MinYear == 2023
MaxYear == 2024

\* ------------------------------------------------------- characters, str
LowerSeq == <<"a","b","c","d","e","f","g","h","i","j","k","l","m",
              "n","o","p","q","r","s","t","u","v","w","x","y","z">>
UpperSeq == <<"A","B","C","D","E","F","G","H","I","J","K","L","M",
              "N","O","P","Q","R","S","T","U","V","W","X","Y","Z">>
DigitSeq == <<"0","1","2","3","4","5","6","7","8","9">>

Range(s) == {s[i] : i \in 1..Len(s)}

\* str.isspace / the regex class \s
IsSpace(c) == c \in {" ", "\t", "\n"}

\* the regex class \w of a str pattern: alphanumerics and the underscore.
\* U+0130 is a letter; U+0307 is a combining mark and is not in \w.
IsWord(c) == c \in Range(LowerSeq) \cup Range(UpperSeq) \cup Range(DigitSeq)
                   \cup {"_", "U+0130"}

\* str.lower() of one character; U+0130 lowers to the two characters
\* "i" U+0307 (Unicode SpecialCasing).
LowerChar(c) ==
    IF c \in Range(UpperSeq)
    THEN <<LowerSeq[CHOOSE i \in 1..26 : UpperSeq[i] = c]>>
    ELSE IF c = "U+0130" THEN <<"i", "U+0307">>
    ELSE <<c>>

RECURSIVE Lower(_)
Lower(s) == IF s = <<>> THEN <<>> ELSE LowerChar(Head(s)) \o Lower(Tail(s))

\* re.sub(r"[^\w\s]", "", s)
RECURSIVE StripNonWord(_)
StripNonWord(s) ==
    IF s = <<>> THEN <<>>
    ELSE (IF IsWord(Head(s)) \/ IsSpace(Head(s)) THEN <<Head(s)>> ELSE <<>>)
         \o StripNonWord(Tail(s))

\* str.split(): maximal runs of non-whitespace characters
RECURSIVE SplitFrom(_, _, _)
SplitFrom(s, i, cur) ==
    IF i > Len(s) THEN (IF cur = <<>> THEN <<>> ELSE <<cur>>)
    ELSE IF IsSpace(s[i])
         THEN (IF cur = <<>> THEN <<>> ELSE <<cur>>) \o SplitFrom(s, i + 1, <<>>)
         ELSE SplitFrom(s, i + 1, Append(cur, s[i]))

Split(s) == SplitFrom(s, 1, <<>>)

\* " ".join(toks)
RECURSIVE Join(_)
Join(toks) ==
    IF toks = <<>> THEN <<>>
    ELSE IF Len(toks) = 1 THEN toks[1]
    ELSE toks[1] \o <<" ">> \o Join(Tail(toks))

\* normalize(question)
normalize(question) == Split(Lower(StripNonWord(question)))

\* all sequences over S of length at most n
RECURSIVE SeqsUpTo(_, _)
SeqsUpTo(S, n) ==
    IF n = 0 THEN {<<>>}
    ELSE LET shorter == SeqsUpTo(S, n - 1)
         IN  shorter \cup {Append(q, x) : q \in shorter, x \in S}

\* ------------------------------------------------------- results, raising
Ok(v) == [kind |-> "ok", val |-> v]
Raise(e) == [kind |-> "raise", exc |-> e]

\* a str whose content is a fixed text
Text(t) == [kind |-> "str", text |-> t]

\* ------------------------------------------------------------------ dates
IsLeap(y) == (y % 4 = 0 /\ y % 100 # 0) \/ y % 400 = 0

DaysInMonth(y, m) ==
    IF m = 2 THEN (IF IsLeap(y) THEN 29 ELSE 28)
    ELSE IF m \in {4, 6, 9, 11} THEN 30 ELSE 31

\* the values datetime.date accepts
IsValidDate(y, m, d) ==
    /\ y \in 1..9999
    /\ m \in 1..12
    /\ d \in 1..DaysInMonth(y, m)

Date(y, m, d) == [year |-> y, month |-> m, day |-> d]

\* a str holding a date written in the layout fmt
DateStr(fmt, y, m, d) == [kind |-> "str", fmt |-> fmt, y |-> y, m |-> m, d |-> d]

\* datetime.datetime.strptime(s, "%Y-%m-%d").date()
strptime_ymd(s) ==
    IF s.fmt = "YYYY-MM-DD" /\ IsValidDate(s.y, s.m, s.d)
    THEN Ok(Date(s.y, s.m, s.d))
    ELSE Raise("ValueError")

\* str(n) of an int
RECURSIVE Digits(_)
Digits(n) ==
    IF n < 10 THEN <<DigitSeq[n + 1]>>
    ELSE Digits(n \div 10) \o <<DigitSeq[(n % 10) + 1]>>

str(n) == [kind |-> "str",
           chars |-> IF n < 0 THEN <<"-">> \o Digits(0 - n) ELSE Digits(n)]

\* (a1, a2) < (b1, b2) on tuples of ints
TupleLess(a, b) == a[1] < b[1] \/ (a[1] = b[1] /\ a[2] < b[2])

\* ----------------------------------------------------- knowledge source
Absent == [kind |-> "absent"]

InfoMonths == {2, 3}
InfoDays == {28, 29}

\* what the birth regex \d{4}-\d{2}-\d{2} can capture
BirthStrings ==
    {DateStr("YYYY-MM-DD", y, m, d) :
        y \in MinYear..MaxYear, m \in InfoMonths, d \in InfoDays}

\* what the death regex [A-Za-z]+\s+\d{1,2},\s+\d{4} can capture
DeathStrings ==
    {DateStr("Month DD, YYYY", MaxYear, 3, d) : d \in InfoDays}

\* values of datetime.date.today()
Todays ==
    {t \in {Date(y, m, d) :
                y \in MinYear..MaxYear, m \in InfoMonths, d \in InfoDays} :
        IsValidDate(t.year, t.month, t.day)}

\* a page, seen through what the four field regexes find in its cleaned
\* first infobox
Pages ==
    {[infobox |-> FALSE, born |-> Absent, died |-> Absent,
      radius |-> Absent, gravity |-> Absent]}
    \cup {[infobox |-> TRUE, born |-> b, died |-> d,
           radius |-> Absent, gravity |-> Absent] :
            b \in BirthStrings \cup {Absent}, d \in DeathStrings \cup {Absent}}
    \cup {[infobox |-> TRUE, born |-> Absent, died |-> Absent,
           radius |-> r, gravity |-> g] :
            r \in {Absent, Text("6356.752")}, g \in {Absent, Text("9.80665")}}

\* the ways wikipedia.search / WikipediaPage / html() can fail
FetchErrors == {"IndexError", "PageError"}

\* the answers of the outside world to one page request
World == {Raise(e) : e \in FetchErrors} \cup {Ok(p) : p \in Pages}

\* get_page_html(title), the world answering w
get_page_html(title, w) == w

\* get_first_infobox_text(html)
get_first_infobox_text(html) ==
    IF html.infobox THEN Ok(html) ELSE Raise("LookupError")

\* get_match(text, pattern, error_text), pattern given as the field it finds
get_match(text, field) ==
    IF text[field] = Absent THEN Raise("AttributeError") ELSE Ok(text[field])

\* clean_text(get_first_infobox_text(get_page_html(name))) and get_match
InfoboxField(name, field, w) ==
    LET html == get_page_html(name, w)
    IN  IF html.kind = "raise" THEN html
        ELSE LET box == get_first_infobox_text(html.val)
             IN  IF box.kind = "raise" THEN box
                 ELSE get_match(box.val, field)

get_polar_radius(planet_name, w) == InfoboxField(planet_name, "radius", w)

get_birth_date(name, w) == InfoboxField(name, "born", w)

get_death_date(name, w) == InfoboxField(name, "died", w)

get_gravity(planet_name, w) ==
    LET m == InfoboxField(planet_name, "gravity", w)
    IN  IF m.kind = "raise" THEN m
        ELSE Ok([kind |-> "str", text |-> m.val.text, unit |-> " m/s2"])

\* --------------------------------------------------------------- actions
\* the local state of one action call: what it returns or raises, the
\* getter calls it made and the value it read from the system clock
Call(fn, name, ret) == [fn |-> fn, name |-> name, ret |-> ret]
Done(ret, cs, clk) == [ret |-> ret, calls |-> cs, clock |-> clk]

\* wraps a getter's str in a one-element list
ListOf(fn, name, r) ==
    Done(IF r.kind = "raise" THEN r ELSE Ok(<<r.val>>),
         <<Call(fn, name, r)>>, Absent)

\* birth_date(matches)
birth_date(matches, w1) ==
    LET name == Join(matches)
    IN  ListOf("get_birth_date", name, get_birth_date(name, w1))

\* polar_radius(matches)
polar_radius(matches, w1) ==
    IF matches = <<>> THEN Done(Raise("IndexError"), <<>>, Absent)
    ELSE ListOf("get_polar_radius", matches[1], get_polar_radius(matches[1], w1))

\* death_date(matches)
death_date(matches, w1) ==
    LET name == Join(matches)
    IN  ListOf("get_death_date", name, get_death_date(name, w1))

\* gravity(matches)
gravity(matches, w1) ==
    IF matches = <<>> THEN Done(Raise("IndexError"), <<>>, Absent)
    ELSE ListOf("get_gravity", matches[1], get_gravity(matches[1], w1))

\* full_years with the birthday itself counted as not yet reached
full_years_on_or_before(birth, end) ==
    LET years == end.year - birth.year
    IN  IF ~TupleLess(<<birth.month, birth.day>>, <<end.month, end.day>>)
        THEN years - 1 ELSE years

\* the years between birth and end, as get_age counts them
full_years(birth, end) ==
    LET years == end.year - birth.year
    IN  IF TupleLess(<<end.month, end.day>>, <<birth.month, birth.day>>)
        THEN years - 1 ELSE years

\* get_age(name); w1 and w2 answer its two page requests, today is the clock
get_age(name, w1, w2, today) ==
    LET birth_str == get_birth_date(name, w1)
        c1 == Call("get_birth_date", name, birth_str)
    IN  IF birth_str.kind = "raise" THEN Done(birth_str, <<c1>>, Absent)
        ELSE
        LET birth == strptime_ymd(birth_str.val)
        IN  IF birth.kind = "raise" THEN Done(birth, <<c1>>, Absent)
            ELSE
            LET death_str == get_death_date(name, w2)
                c2 == Call("get_death_date", name, death_str)
                parsed == IF death_str.kind = "raise" THEN death_str
                          ELSE strptime_ymd(death_str.val)
            IN  IF parsed.kind = "ok"
                THEN Done(Ok(str(full_years(birth.val, parsed.val))),
                          <<c1, c2>>, Absent)
                ELSE IF parsed.exc = "AttributeError"
                THEN Done(Ok(str(full_years(birth.val, today))),
                          <<c1, c2>>, today)
                ELSE Done(parsed, <<c1, c2>>, Absent)

\* age(matches)
age(matches, w1, w2, today) ==
    LET r == get_age(Join(matches), w1, w2, today)
    IN  Done(IF r.ret.kind = "raise" THEN r.ret ELSE Ok(<<r.ret.val>>),
             r.calls, r.clock)

\* bye_action(dummy)
bye_action(dummy) == Done(Raise("KeyboardInterrupt"), <<>>, Absent)

\* ------------------------------------------------------------ the table
when == <<"w","h","e","n">>
was == <<"w","a","s">>
born == <<"b","o","r","n">>
what == <<"w","h","a","t">>
is == <<"i","s">>
the == <<"t","h","e">>
polar == <<"p","o","l","a","r">>
radius == <<"r","a","d","i","u","s">>
of == <<"o","f">>
did == <<"d","i","d">>
die == <<"d","i","e">>
gravity_word == <<"g","r","a","v","i","t","y">>
how == <<"h","o","w">>
old == <<"o","l","d">>
bye == <<"b","y","e">>
mars == <<"m","a","r","s">>

\* the wildcard marker of a pattern
WILDCARD == <<"%">>

Entry(pat, act) == [pat |-> pat, act |-> act]

pa_list ==
    << Entry(<<when, was, WILDCARD, born>>, "birth_date"),
       Entry(<<what, is, the, polar, radius, of, WILDCARD>>, "polar_radius"),
       Entry(<<when, did, WILDCARD, die>>, "death_date"),
       Entry(<<what, is, the, gravity_word, of, WILDCARD>>, "gravity"),
       Entry(<<how, old, is, WILDCARD>>, "age"),
       Entry(<<bye>>, "bye_action") >>

\* the most page requests the action named act makes in one call
PageRequests(act) ==
    CASE act = "age" -> 2
      [] act = "bye_action" -> 0
      [] OTHER -> 1

\* calling the action named act on the binding mat; ws[k] answers its k-th
\* page request
Apply(act, mat, ws, today) ==
    CASE act = "birth_date" -> birth_date(mat, ws[1])
      [] act = "polar_radius" -> polar_radius(mat, ws[1])
      [] act = "death_date" -> death_date(mat, ws[1])
      [] act = "gravity" -> gravity(mat, ws[1])
      [] act = "age" -> age(mat, ws[1], ws[2], today)
      [] act = "bye_action" -> bye_action(mat)

\* ---------------------------------------------------------- the matcher
Matched(b) == [ok |-> TRUE, binding |-> b]
NoMatch == [ok |-> FALSE, binding |-> <<>>]

Suffix(s, k) == SubSeq(s, k + 1, Len(s))

\* match(pattern, source): recursive, backtracking, shortest span first
RECURSIVE match(_, _)
match(pattern, source) ==
    IF pattern = <<>>
    THEN (IF source = <<>> THEN Matched(<<>>) ELSE NoMatch)
    ELSE IF Head(pattern) # WILDCARD
    THEN (IF source # <<>> /\ Head(source) = Head(pattern)
          THEN match(Tail(pattern), Tail(source))
          ELSE NoMatch)
    ELSE LET ks == {k \in 0..Len(source) :
                        match(Tail(pattern), Suffix(source, k)).ok}
         IN  IF ks = {} THEN NoMatch
             ELSE LET k == CHOOSE j \in ks : \A i \in ks : j <= i
                  IN  Matched(SubSeq(source, 1, k)
                              \o match(Tail(pattern), Suffix(source, k)).binding)

\* ------------------------------------------------------ the input lines
\* str.upper() of one character
UpperChar(c) ==
    IF c \in Range(LowerSeq)
    THEN UpperSeq[CHOOSE i \in 1..26 : LowerSeq[i] = c]
    ELSE c

\* the pattern with its wildcard replaced by the tokens b
RECURSIVE Fill(_, _)
Fill(pat, b) ==
    IF pat = <<>> THEN <<>>
    ELSE (IF Head(pat) = WILDCARD THEN b ELSE <<Head(pat)>>) \o Fill(Tail(pat), b)

SubjectWords == {mars, born}
Bindings == SeqsUpTo(SubjectWords, MaxBinding)

\* every template filled with every binding, and its near misses: the first
\* token missing, one more token at the end
FilledTemplates ==
    {Fill(pa_list[i].pat, b) : i \in 1..Len(pa_list), b \in Bindings}

TokenLists ==
    FilledTemplates
    \cup {Tail(t) : t \in FilledTemplates}
    \cup {Append(t, mars) : t \in FilledTemplates}

\* the line as typed: lower case with single spaces, or capitalised with a
\* question mark
Render(t, style) ==
    LET line == Join(t)
    IN  IF style = "plain" \/ line = <<>> THEN line
        ELSE <<UpperChar(Head(line))>> \o Tail(line) \o <<"?">>

RawQueries == {Render(t, style) : t \in TokenLists, style \in {"plain", "typed"}}

\* ------------------------------------------------------------ dispatcher
\* the call with its arguments in the wrong order
match_call_swapped(pat, src) == match(src, pat)

\* mat = match(pat, src)
match_call(pat, src) == match(pat, src)

\* every entry bound to the action of the first one
entry_action_first(i) == pa_list[1].act

\* the act of "for pat, act in pa_list" at entry i
entry_action(i) == pa_list[i].act

\* the result passed on as it is
or_no_answers_dropped(result) == result

\* act(mat) or ["No answers"]
or_no_answers(result) ==
    IF result = <<>> THEN <<Text("No answers")>> ELSE result

\* the fall-through returning the other message
no_match_answer_other == <<Text("No answers")>>

\* return ["I don't understand"]
no_match_answer == <<Text("I don't understand")>>

NewQuery ==
    /\ idx' = 1
    /\ tried' = <<>>
    /\ invoked' = <<>>
    /\ calls' = <<>>
    /\ clock' = Absent
    /\ answers' = <<>>
    /\ printed' = <<>>

Init ==
    /\ pc = "read"
    /\ raw = <<>>
    /\ tokens = <<>>
    /\ renorm = <<>>
    /\ idx = 0
    /\ tried = <<>>
    /\ invoked = <<>>
    /\ calls = <<>>
    /\ clock = Absent
    /\ answers = <<>>
    /\ printed = <<>>
    /\ farewell = 0
    /\ exc = ""

\* query_loop: raw = input(...); tokens = normalize(raw); search_pa_list begins
ReadQuery ==
    /\ pc = "read"
    /\ \E line \in RawQueries :
          /\ raw' = line
          /\ tokens' = normalize(line)
    /\ NewQuery
    /\ pc' = "search"
    /\ UNCHANGED <<renorm, farewell, exc>>

\* query_loop: input(...) raises EOFError; break; the farewell is printed
ReadEOF ==
    /\ pc = "read"
    /\ raw' = <<>>
    /\ tokens' = <<>>
    /\ NewQuery
    /\ farewell' = farewell + 1
    /\ pc' = "done"
    /\ UNCHANGED <<renorm, exc>>

\* search_pa_list: one turn of the for loop whose pattern does not match
EntryFails ==
    /\ pc = "search"
    /\ idx <= Len(pa_list)
    /\ LET mat == match_call(pa_list[idx].pat, tokens)
       IN  /\ ~mat.ok
           /\ tried' = Append(tried, [entry |-> idx, mat |-> mat])
    /\ idx' = idx + 1
    /\ UNCHANGED <<pc, raw, tokens, renorm, invoked, calls, clock, answers,
                   printed, farewell, exc>>

\* search_pa_list: the turn of the for loop whose pattern matches; the action
\* runs and returns, or raises into query_loop
EntryMatches ==
    /\ pc = "search"
    /\ idx <= Len(pa_list)
    /\ LET mat == match_call(pa_list[idx].pat, tokens)
       IN  /\ mat.ok
           /\ tried' = Append(tried, [entry |-> idx, mat |-> mat])
           /\ invoked' = Append(invoked, [act |-> entry_action(idx),
                                          arg |-> mat.binding])
           /\ \E ws \in [1..PageRequests(entry_action(idx)) -> World],
                 today \in Todays :
                 LET r == Apply(entry_action(idx), mat.binding, ws, today)
                 IN  /\ calls' = r.calls
                     /\ clock' = r.clock
                     /\ IF r.ret.kind = "ok"
                        THEN /\ answers' = or_no_answers(r.ret.val)
                             /\ pc' = "print"
                             /\ UNCHANGED <<farewell, exc>>
                        ELSE IF r.ret.exc \in {"KeyboardInterrupt", "EOFError"}
                        THEN /\ pc' = "done"
                             /\ farewell' = farewell + 1
                             /\ UNCHANGED <<answers, exc>>
                        ELSE /\ pc' = "crashed"
                             /\ exc' = r.ret.exc
                             /\ UNCHANGED <<answers, farewell>>
    /\ UNCHANGED <<raw, tokens, renorm, idx, printed>>

\* search_pa_list: the for loop ends without a match
NoEntryMatches ==
    /\ pc = "search"
    /\ idx > Len(pa_list)
    /\ answers' = no_match_answer
    /\ pc' = "print"
    /\ UNCHANGED <<raw, tokens, renorm, idx, tried, invoked, calls, clock,
                   printed, farewell, exc>>

\* query_loop: for ans in answers: print(ans); the turn of the while loop
\* ends and the values of this query are dead
PrintAnswers ==
    /\ pc = "print"
    /\ printed' = answers
    /\ pc' = "read"
    /\ raw' = <<>>
    /\ tokens' = <<>>
    /\ tried' = <<>>
    /\ invoked' = <<>>
    /\ calls' = <<>>
    /\ clock' = Absent
    /\ UNCHANGED <<renorm, idx, answers, farewell, exc>>

Next ==
    \/ ReadQuery
    \/ ReadEOF
    \/ EntryFails
    \/ EntryMatches
    \/ NoEntryMatches
    \/ PrintAnswers

Spec == Init /\ [][Next]_vars

\* --------------------------------------------- normalize on its own
NormAlphabet == {"a", "B", "_", " ", "!", "U+0130", "U+0307"}

InitNorm ==
    /\ pc = "norm"
    /\ raw \in SeqsUpTo(NormAlphabet, MaxStrLen)
    /\ tokens = <<>>
    /\ renorm = <<>>
    /\ idx = 0
    /\ tried = <<>>
    /\ invoked = <<>>
    /\ calls = <<>>
    /\ clock = Absent
    /\ answers = <<>>
    /\ printed = <<>>
    /\ farewell = 0
    /\ exc = ""

\* normalize(raw), then normalize of its tokens joined by single spaces
Renormalize ==
    /\ pc = "norm"
    /\ tokens' = normalize(raw)
    /\ renorm' = normalize(Join(normalize(raw)))
    /\ pc' = "normed"
    /\ UNCHANGED <<raw, idx, tried, invoked, calls, clock, answers, printed,
                   farewell, exc>>

NextNorm == Renormalize

SpecNorm == InitNorm /\ [][NextNorm]_vars

\* ================================================================ claims
\* the entries of pa_list whose pattern matches the token list src
MatchingEntries(src) ==
    {i \in 1..Len(pa_list) : match(pa_list[i].pat, src).ok}

\* search_pa_list has returned or raised for the query in tokens
SearchOver ==
    \/ idx > 0 /\ pc \in {"print", "crashed"}
    \/ pc = "done" /\ tried # <<>>

AnsweringActions == {"birth_date", "polar_radius", "death_date", "gravity", "age"}

\* C2: for every token sequence at most one action is invoked; when a pattern
\* matches it is the action of the matching entry with the smallest index,
\* invoked once with the binding match returned for that entry, and no entry
\* after the first matching one is tried.
C2_FirstMatchWins ==
    /\ Len(invoked) <= 1
    /\ \A k \in 1..Len(tried) :
          /\ tried[k].entry = k
          /\ tried[k].mat.ok => k = Len(tried)
    /\ invoked # <<>> =>
          LET i == Len(tried)
          IN  /\ i \in MatchingEntries(tokens)
              /\ \A j \in MatchingEntries(tokens) : i <= j
              /\ invoked = <<[act |-> pa_list[i].act,
                              arg |-> match(pa_list[i].pat, tokens).binding]>>
    /\ (SearchOver /\ MatchingEntries(tokens) # {}) => invoked # <<>>

\* a query matched by an entry that is not the first: its action has run
C2_Witness ==
    /\ pc = "print"
    /\ Len(invoked) = 1
    /\ invoked[1].act = "gravity"
    /\ invoked[1].arg = <<mars>>
    /\ Len(tried) = 4

\* C4: for every token sequence that no pattern of pa_list matches,
\* search_pa_list invokes no action and returns ["I don't understand"].
C4_NoMatchAnswer ==
    (idx > 0 /\ pc \in {"search", "print", "crashed"}
        /\ MatchingEntries(tokens) = {}) =>
        /\ invoked = <<>>
        /\ pc # "crashed"
        /\ pc = "print" => answers = <<Text("I don't understand")>>

\* a non-empty query that no pattern matches has been answered
C4_Witness ==
    /\ pc = "print"
    /\ tokens = <<was, mars, born>>
    /\ Len(tried) = Len(pa_list)
    /\ invoked = <<>>

\* C5: whenever search_pa_list returns, the returned list is non-empty (an
\* empty result of an action is replaced by the one line "No answers"), so
\* every query after which the loop reads again has printed a line.
C5_AlwaysAnAnswer ==
    /\ pc = "print" => answers # <<>>
    /\ (pc = "read" /\ idx > 0) => printed # <<>>
    /\ or_no_answers(<<>>) = <<Text("No answers")>>
    /\ \A r \in {answers, printed} : r # <<>> => or_no_answers(r) = r

\* an action has returned its list and it has been printed
C5_Witness ==
    /\ pc = "read"
    /\ idx = 1
    /\ Len(printed) = 1
    /\ printed[1] \in BirthStrings

\* the place of the wildcard in a pattern that has one
WildAt(pat) == CHOOSE i \in 1..Len(pat) : pat[i] = WILDCARD
OneWildcard(pat) == Cardinality({i \in 1..Len(pat) : pat[i] = WILDCARD}) = 1

\* the literal tokens before the wildcard are the first tokens of src
PrefixAligned(pat, src) ==
    \A j \in 1..(WildAt(pat) - 1) : src[j] = pat[j]

\* the literal tokens after the wildcard are the last tokens of src
SuffixAligned(pat, src) ==
    \A j \in (WildAt(pat) + 1)..Len(pat) :
        src[Len(src) - Len(pat) + j] = pat[j]

\* the tokens of src strictly between the two anchors
Between(pat, src) ==
    [j \in 1..(Len(src) - Len(pat) + 1) |-> src[WildAt(pat) - 1 + j]]

\* C6: for every pattern of pa_list with exactly one wildcard and every source
\* of length at least pattern length minus one, the match succeeds iff the
\* literals before the wildcard are a prefix and the literals after it a suffix
\* of the source, and the binding handed to the action is exactly the source
\* tokens strictly between them, in order.
C6_SingleWildcardMatch ==
    \A k \in 1..Len(tried) :
        LET pat == pa_list[tried[k].entry].pat
        IN  (OneWildcard(pat) /\ Len(tokens) >= Len(pat) - 1) =>
                /\ tried[k].mat.ok <=>
                      (PrefixAligned(pat, tokens) /\ SuffixAligned(pat, tokens))
                /\ tried[k].mat.ok =>
                      /\ Len(invoked) = 1
                      /\ invoked[1].arg = Between(pat, tokens)

\* "when was mars born born": the wildcard in the middle binds two tokens, the
\* second equal to the literal that follows it
C6_Witness ==
    /\ tokens = <<when, was, mars, born, born>>
    /\ Len(invoked) = 1
    /\ invoked[1].act = "birth_date"
    /\ invoked[1].arg = <<mars, born>>

\* the date written in a date str
DateOf(ds) == Date(ds.y, ds.m, ds.d)

\* end is not earlier than birth
NotEarlier(end, birth) ==
    \/ end.year > birth.year
    \/ end.year = birth.year /\ end.month > birth.month
    \/ end.year = birth.year /\ end.month = birth.month /\ end.day >= birth.day

\* the birthday of the end year is on or before end
BirthdayReached(end, birth) ==
    \/ end.month > birth.month
    \/ end.month = birth.month /\ end.day >= birth.day

\* the age action has returned its answer
AgeAnswered ==
    /\ pc = "print"
    /\ invoked # <<>>
    /\ invoked[1].act = "age"

\* the end date of the age computation that returned
AgeEnd == IF clock # Absent THEN clock ELSE DateOf(calls[2].ret.val)

\* C10: in get_age, for every birth date and end date with end not earlier than
\* birth, the returned number of years is non-negative and is end.year minus
\* birth.year when the (month, day) of end is on or after that of birth, and
\* one less otherwise.
C10_CompletedYears ==
    AgeAnswered =>
        LET birth == DateOf(calls[1].ret.val)
            end == AgeEnd
            y == IF BirthdayReached(end, birth)
                 THEN end.year - birth.year
                 ELSE end.year - birth.year - 1
        IN  NotEarlier(end, birth) => (y >= 0 /\ answers = <<str(y)>>)

\* an age answered on the birthday itself, one year on
C10_Witness ==
    /\ AgeAnswered
    /\ DateOf(calls[1].ret.val) = Date(MinYear, 2, 28)
    /\ AgeEnd = Date(MinYear + 1, 2, 28)
    /\ answers = <<str(1)>>

\* C1: every query whose pattern matches and whose action fails gets a
\* single-line answer and the loop reads on; no action failure other than the
\* bye signal ends the loop or escapes as an uncaught exception.
C1_ActionFailureAnswered ==
    (invoked # <<>> /\ invoked[1].act \in AnsweringActions) =>
        /\ pc = "print"
        /\ exc = ""
        /\ Len(answers) = 1

\* C3: query_loop stops on a query that normalizes to the single token bye or
\* on the end of the input: no answer line is printed for that input, the
\* farewell is printed exactly once and no further query is read; the loop
\* ends in no other way.
C3_LoopEndsByByeOrEOF ==
    /\ pc # "crashed"
    /\ pc = "done" =>
          /\ farewell = 1
          /\ answers = <<>>
          /\ printed = <<>>
          /\ tokens = <<bye>> \/ tried = <<>>
    /\ pc # "done" => farewell = 0
    /\ (tokens = <<bye>> /\ pc # "search") => pc = "done"

\* C7: normalize is total and idempotent: normalize of the tokens of
\* normalize(s), joined by single spaces, is normalize(s).
C7_NormalizeIdempotent ==
    pc = "normed" => renorm = tokens

\* C8: when get_death_date returns a death date, get_age ends the age at that
\* death date and returns the years as a string; today's date is the end only
\* when the page has no death information.
C8_AgeEndsAtDeath ==
    (invoked # <<>> /\ invoked[1].act = "age" /\ Len(calls) = 2) =>
        IF calls[2].ret.kind = "ok"
        THEN /\ pc = "print"
             /\ clock = Absent
             /\ answers = <<str(full_years(DateOf(calls[1].ret.val),
                                           DateOf(calls[2].ret.val)))>>
        ELSE calls[2].ret.exc = "AttributeError" =>
                /\ pc = "print"
                /\ clock # Absent
                /\ answers = <<str(full_years(DateOf(calls[1].ret.val), clock))>>

\* C9: for each answering action and every non-empty binding, the subject
\* looked up in the knowledge source is all tokens of the binding, in order,
\* joined by single spaces.
C9_LookupWholeBinding ==
    (invoked # <<>> /\ invoked[1].act \in AnsweringActions
        /\ invoked[1].arg # <<>>) =>
        /\ calls # <<>>
        /\ \A k \in 1..Len(calls) : calls[k].name = Join(invoked[1].arg)

====
